---- MODULE Spec2Model ----
(***************************************************************************)
(* State-machine model of sciris.sc_dataframe.dataframe, the pandas         *)
(* DataFrame subclass with flexible indexing and row helpers, and of the    *)
(* pure helpers sc_plotting.get_rows_cols and the recursive_substitute of   *)
(* sc_legacy.                                                               *)
(*                                                                          *)
(* A dataframe is a record [cols, index, data]: cols the column labels,     *)
(* index the row labels, data the rows (each a sequence of cell values in   *)
(* column order).  Python positions are 0-based; sequences here are         *)
(* 1-based, so position i is element i+1.                                   *)
(***************************************************************************)
EXTENDS Integers, Sequences, FiniteSets, TLC

VARIABLES df, op, args, ret, prev

vars == <<df, op, args, ret, prev>>

\* Largest number of rows a dataframe of the model holds.
MaxRows == 3

\* Column labels of the docstring's example dataframe.
Cols == <<"x", "y">>

\* Cell values (two distinct values give matches, mismatches and ties).
Vals == {2, 3}

\* Missing value that pd.concat fills in for a column a frame lacks.
NaN == -1

\* A column name that is not in the dataframe.
NoCol == "z"

------------------------------------------------------------------------------
(* Sequence helpers *)

Range(s) == {s[i] : i \in DOMAIN s}

\* Position (1-based) of the first occurrence of e in s; 0 when absent.
IndexOf(s, e) ==
    IF e \in Range(s) THEN CHOOSE i \in DOMAIN s : s[i] = e /\ \A j \in 1..(i-1) : s[j] # e
    ELSE 0

\* The elements of s at the positions (1-based) listed in ps, in that order.
Pick(s, ps) == [k \in 1..Len(ps) |-> s[ps[k]]]

\* The members of a finite set of integers in ascending order.
RECURSIVE SortedSeq(_)
SortedSeq(S) ==
    IF S = {} THEN <<>>
    ELSE LET m == CHOOSE x \in S : \A y \in S : x <= y
         IN <<m>> \o SortedSeq(S \ {m})

RECURSIVE Flatten(_)
Flatten(ss) == IF ss = <<>> THEN <<>> ELSE Head(ss) \o Flatten(Tail(ss))

\* s with duplicates removed, keeping first occurrences in order.
RECURSIVE Unique(_)
Unique(s) ==
    IF s = <<>> THEN <<>>
    ELSE LET r == Unique(SubSeq(s, 1, Len(s) - 1))
         IN IF s[Len(s)] \in Range(r) THEN r ELSE Append(r, s[Len(s)])

------------------------------------------------------------------------------
(* Values passed to and returned by the methods *)

StrKey(s)      == [t |-> "str", s |-> s, n |-> 0]
IntKey(n)      == [t |-> "int", s |-> "", n |-> n]
TupleKey(a, b) == [t |-> "tuple", a |-> a, b |-> b]

Ret(kind, v) == [kind |-> kind, val |-> v]
RetSelf      == Ret("self", <<>>)
RetError     == Ret("error", <<>>)
RetNone      == Ret("none", <<>>)

------------------------------------------------------------------------------
(* The tabular engine: the pandas operations the dataframe delegates to *)

NRows(d) == Len(d.data)
NCols(d) == Len(d.cols)

\* pd.DataFrame(data=rows, columns=columns): rows get the labels 0..n-1.
Frame(columns, rows) ==
    [cols |-> columns, index |-> [i \in 1..Len(rows) |-> i - 1], data |-> rows]

\* A Python position as a 1-based position, negative positions counted from the end.
Pos(i, n) == IF i < 0 THEN i + n + 1 ELSE i + 1

ValidPos(i, n) == Pos(i, n) \in 1..n

\* d.iloc[ps, :] for a list of 1-based positions.
ILocRows(d, ps) ==
    [cols |-> d.cols, index |-> Pick(d.index, ps), data |-> Pick(d.data, ps)]

\* d.reset_index(drop=True)
ResetIndex(d) == [d EXCEPT !.index = [i \in 1..NRows(d) |-> i - 1]]

\* The values of the column labelled c, by row.
Column(d, c) == [r \in 1..NRows(d) |-> d.data[r][IndexOf(d.cols, c)]]

\* pd.concat(dfs): rows and row labels in order; columns are the union of the
\* frames' columns in order of first appearance, aligned by label.
PdConcat(dfs) ==
    LET ucols == Unique(Flatten([k \in 1..Len(dfs) |-> dfs[k].cols]))
        Align(d) == [r \in 1..NRows(d) |->
                        [c \in 1..Len(ucols) |->
                            IF ucols[c] \in Range(d.cols)
                            THEN d.data[r][IndexOf(d.cols, ucols[c])]
                            ELSE NaN]]
    IN [cols  |-> ucols,
        index |-> Flatten([k \in 1..Len(dfs) |-> dfs[k].index]),
        data  |-> Flatten([k \in 1..Len(dfs) |-> Align(dfs[k])])]

\* d.drop(label): every row carrying that row label is removed.
Drop(d, label) ==
    LET keep == SortedSeq({r \in 1..NRows(d) : d.index[r] # label})
    IN ILocRows(d, keep)

------------------------------------------------------------------------------
(* dataframe.__getitem__ *)

\* pd.DataFrame.__getitem__(key): a column label gives the column, any other
\* key of the kinds modelled raises KeyError.
PdGetItem(d, key) ==
    IF key.t = "str" /\ key.s \in Range(d.cols)
    THEN Ret("column", Column(d, key.s))
    ELSE RetError

\* d.iloc[r, c] for a row key and a column key.
ILoc2(d, r, c) ==
    IF r.t = "int" /\ c.t = "int" /\ ValidPos(r.n, NRows(d)) /\ ValidPos(c.n, NCols(d))
    THEN Ret("scalar", d.data[Pos(r.n, NRows(d))][Pos(c.n, NCols(d))])
    ELSE RetError

\* ILocKey looking an integer up among the row labels instead of the positions.
ILocKeyByLabel(d, key) ==
    CASE key.t = "int" ->
            IF key.n \in Range(d.index)
            THEN Ret("row", d.data[IndexOf(d.index, key.n)])
            ELSE RetError
      [] key.t = "tuple" -> ILoc2(d, key.a, key.b)
      [] OTHER -> RetError

\* d.iloc[key]
ILocKey(d, key) ==
    CASE key.t = "int" ->
            IF ValidPos(key.n, NRows(d))
            THEN Ret("row", d.data[Pos(key.n, NRows(d))])
            ELSE RetError
      [] key.t = "tuple" -> ILoc2(d, key.a, key.b)
      [] OTHER -> RetError

\* GetItemFallback without the swap of a (name, position) key.
GetItemFallbackNoSwap(d, key) ==
    CASE key.t = "str" -> RetError
      [] key.t = "int" -> RetError
      [] key.t = "tuple" ->
            IF key.b.t = "str"
            THEN IF key.b.s \in Range(d.cols)
                 THEN ILoc2(d, key.a, IntKey(IndexOf(d.cols, key.b.s) - 1))
                 ELSE RetError
            ELSE ILoc2(d, key.a, key.b)

\* The last resort of __getitem__: split the key into row and column.
GetItemFallback(d, key) ==
    CASE key.t = "str" -> RetError  \* reached only when the column is missing
      [] key.t = "int" -> RetError  \* iloc[key, :] fails as iloc[key] did
      [] key.t = "tuple" ->
            LET swap == key.a.t = "str" /\ key.b.t # "str"
                r    == IF swap THEN key.b ELSE key.a
                c    == IF swap THEN key.a ELSE key.b
            IN IF c.t = "str"
               THEN IF c.s \in Range(d.cols)
                    THEN ILoc2(d, r, IntKey(IndexOf(d.cols, c.s) - 1))
                    ELSE RetError
               ELSE ILoc2(d, r, c)

getitem(d, key) ==
    IF PdGetItem(d, key).kind # "error" THEN PdGetItem(d, key)
    ELSE IF ILocKey(d, key).kind # "error" THEN ILocKey(d, key)
    ELSE GetItemFallback(d, key)

------------------------------------------------------------------------------
(* dataframe.__setitem__ *)

\* Whether pandas is bypassed: a 2-tuple of int/str that is not a column.
SetItemBypass(d, key) == key.t = "tuple"

\* Does v (a key component) name a column?
InCols(d, k) == k.t = "str" /\ k.s \in Range(d.cols)

\* self.iloc[r, c] = value for one cell
SetCell(d, r, c, value) ==
    [d EXCEPT !.data[Pos(r, NRows(d))][Pos(c, NCols(d))] = value]

\* setitem that takes the key as (row, column) whatever its order.
setitemNoSwap(d, key, value) ==
    LET r == key.a
        c == IF InCols(d, key.b) THEN IntKey(IndexOf(d.cols, key.b.s) - 1) ELSE key.b
    IN IF SetItemBypass(d, key) /\ r.t = "int" /\ c.t = "int"
          /\ ValidPos(r.n, NRows(d)) /\ ValidPos(c.n, NCols(d))
       THEN [ok |-> TRUE,  df |-> SetCell(d, r.n, c.n, value)]
       ELSE [ok |-> FALSE, df |-> d]

\* The dataframe after self[key] = value, for tuple keys; "ok" false on an exception.
setitem(d, key, value) ==
    LET swap == InCols(d, key.a) /\ ~InCols(d, key.b)
        r    == IF swap THEN key.b ELSE key.a
        c0   == IF swap THEN key.a ELSE key.b
        c    == IF InCols(d, c0) THEN IntKey(IndexOf(d.cols, c0.s) - 1) ELSE c0
    IN IF SetItemBypass(d, key) /\ r.t = "int" /\ c.t = "int"
          /\ ValidPos(r.n, NRows(d)) /\ ValidPos(c.n, NCols(d))
       THEN [ok |-> TRUE,  df |-> SetCell(d, r.n, c.n, value)]
       ELSE [ok |-> FALSE, df |-> d]

------------------------------------------------------------------------------
(* Row data handed to the concatenation helpers *)

ListRow(vals)       == [t |-> "list", keys |-> <<>>, vals |-> vals]
DictRow(keys, vals) == [t |-> "dict", keys |-> keys, vals |-> vals]
FrameArg(d)         == [t |-> "frame", keys |-> <<>>, vals |-> d]

------------------------------------------------------------------------------
(* dataframe.replacedata, concat, appendrow, append, cat, insertrow *)

\* The outcome of a method: the dataframe it leaves in self, and what it returns.
Outcome(self, r) == [self |-> self, ret |-> r]

replacedata(self, newdf, reset_index, inplace) ==
    LET nd == IF reset_index THEN ResetIndex(newdf) ELSE newdf
    IN IF inplace THEN Outcome(nd, RetSelf)
       ELSE Outcome(self, Ret("frame", nd))

\* sanitize_df that keeps the caller's column order for a dict.
sanitize_df_positional(self, arg, columns) ==
    CASE arg.t = "frame" -> arg.vals
      [] arg.t = "dict"  -> Frame(columns, <<arg.vals>>)
      [] arg.t = "list"  -> Frame(columns, <<arg.vals>>)

\* _sanitize_df: the argument as a dataframe.  A dict brings its own column
\* order; a 1-D argument with one value per column becomes a single row.
sanitize_df(self, arg, columns) ==
    CASE arg.t = "frame" -> arg.vals
      [] arg.t = "dict"  -> Frame(arg.keys, <<arg.vals>>)
      [] arg.t = "list"  -> Frame(columns, <<arg.vals>>)

concat(self, data, more, reset_index, inplace) ==
    LET argl  == <<data>> \o more
        dfs   == <<self>> \o [k \in 1..Len(argl) |-> sanitize_df(self, argl[k], self.cols)]
        newdf == PdConcat(dfs)
    IN replacedata(self, newdf, reset_index, inplace)

\* appendrow that forgets to pass inplace on, leaving concat's default.
appendrow_notinplace(self, row, reset_index, inplace) ==
    concat(self, row, <<>>, reset_index, FALSE)

appendrow(self, row, reset_index, inplace) ==
    concat(self, row, <<>>, reset_index, inplace)

append(self, row, reset_index, inplace) ==
    concat(self, row, <<>>, reset_index, inplace)

\* The classmethod cat(data, *args): a dataframe of data with args concatenated.
cat(data, more) ==
    IF more = <<>> THEN data
    ELSE concat(data, Head(more), Tail(more), TRUE, FALSE).ret.val

\* The number of leading rows the slice [:k] takes from n rows.
SliceLen(k, n) ==
    IF k < 0 THEN (IF n + k < 0 THEN 0 ELSE n + k)
    ELSE (IF k > n THEN n ELSE k)

\* insertrow that puts the new row after the row at index.
insertrow_after(self, index, value, reset_index, inplace) ==
    LET k      == SliceLen(index + 1, NRows(self))
        before == ILocRows(self, [i \in 1..k |-> i])
        after  == ILocRows(self, [i \in 1..(NRows(self) - k) |-> k + i])
        newdf  == cat(before, <<value, FrameArg(after)>>)
    IN replacedata(self, newdf, reset_index, inplace)

insertrow(self, index, value, reset_index, inplace) ==
    LET k      == SliceLen(index, NRows(self))
        before == ILocRows(self, [i \in 1..k |-> i])
        after  == ILocRows(self, [i \in 1..(NRows(self) - k) |-> k + i])
        newdf  == cat(before, <<value, FrameArg(after)>>)
    IN replacedata(self, newdf, reset_index, inplace)

------------------------------------------------------------------------------
(* dataframe.col_index, findinds, _diffinds, poprow, poprows, filterin, filterout *)

NoneKey == [t |-> "none", s |-> "", n |-> 0]

\* An optional value argument: None, or a value.
None    == [some |-> FALSE, v |-> 0]
Some(v) == [some |-> TRUE, v |-> v]

\* Row selections: None, one position, or a list of positions (Python, 0-based).
NoInds      == [t |-> "none", n |-> 0, l |-> <<>>]
OneInd(i)   == [t |-> "int", n |-> i, l |-> <<>>]
IndList(l)  == [t |-> "list", n |-> 0, l |-> l]

\* col_index: the 0-based position of a column given by name, position or None.
col_index(self, col) ==
    CASE col.t = "none" -> 0
      [] col.t = "str"  -> IndexOf(self.cols, col.s) - 1
      [] col.t = "int"  -> col.n

\* sc_math.findinds(arr, val): the positions (0-based, ascending) of the
\* entries of arr equal to val.
scm_findinds(arr, val) ==
    IndList(SortedSeq({i - 1 : i \in {j \in DOMAIN arr : arr[j] = val}}))

findinds(self, value, col) ==
    LET c       == col_index(self, col)
        coldata == [r \in 1..NRows(self) |-> self.data[r][c + 1]]
    IN scm_findinds(coldata, value)

\* all_inds[inds]: the positions a selection names, as a set of 0-based positions.
Selected(n, inds) ==
    CASE inds.t = "none" -> {}
      [] inds.t = "int"  -> {Pos(inds.n, n) - 1}
      [] inds.t = "list" -> {Pos(inds.l[k], n) - 1 : k \in DOMAIN inds.l}

\* diffinds that takes a negative position as it stands.
diffinds_nowrap(self, inds) ==
    LET sel == CASE inds.t = "none" -> {}
                 [] inds.t = "int"  -> {inds.n}
                 [] inds.t = "list" -> Range(inds.l)
    IN IndList(SortedSeq((0..(NRows(self) - 1)) \ sel))

\* _diffinds: the positions not selected, ascending (np.setdiff1d sorts).
diffinds(self, inds) ==
    IndList(SortedSeq((0..(NRows(self) - 1)) \ Selected(NRows(self), inds)))

poprow(self, row, returnval) ==
    LET rowindex == row
        indexkey == self.index[Pos(row, NRows(self))]
        thisrow  == Ret("row", self.data[Pos(rowindex, NRows(self))])
        dropped  == Drop(self, indexkey)
    IN Outcome(dropped, IF returnval THEN thisrow ELSE RetSelf)

poprows(self, inds, value, col, reset_index, inplace) ==
    LET inds1     == IF value.some THEN findinds(self, value.v, col) ELSE inds
        keep_set  == diffinds(self, inds1)
        keep_data == ILocRows(self, [k \in DOMAIN keep_set.l |-> keep_set.l[k] + 1])
        newdf     == keep_data
    IN replacedata(self, newdf, reset_index, inplace)

\* filterrows that pops the matching rows whatever keep says.
filterrows_nokeep(self, inds, value, col, keep, reset_index, inplace) ==
    LET inds1 == IF value.some THEN findinds(self, value.v, col) ELSE inds
    IN poprows(self, inds1, None, NoneKey, reset_index, inplace)

filterrows(self, inds, value, col, keep, reset_index, inplace) ==
    LET inds1 == IF value.some THEN findinds(self, value.v, col) ELSE inds
        inds2 == IF keep THEN diffinds(self, inds1) ELSE inds1
    IN poprows(self, inds2, None, NoneKey, reset_index, inplace)

filterin(self, inds, value, col, reset_index, inplace) ==
    filterrows(self, inds, value, col, TRUE, reset_index, inplace)

filterout(self, inds, value, col, reset_index, inplace) ==
    filterrows(self, inds, value, col, FALSE, reset_index, inplace)

------------------------------------------------------------------------------
(* dataframe.filtercols *)

\* d.iloc[:, cs] for a list of 1-based column positions.
ILocCols(d, cs) ==
    [cols  |-> Pick(d.cols, cs), index |-> d.index,
     data  |-> [r \in 1..NRows(d) |-> Pick(d.data[r], cs)]]

\* pd.DataFrame(data=d, columns=columns) for a dataframe d: the columns of d
\* with those labels, in that order.
FrameOf(d, columns) ==
    [cols  |-> columns, index |-> d.index,
     data  |-> [r \in 1..NRows(d) |->
                  [c \in 1..Len(columns) |-> d.data[r][IndexOf(d.cols, columns[c])]]]]

\* filtercols that keeps the requested columns in the dataframe's own order.
filtercols_sorted(self, cols, keep, reset_index, inplace) ==
    LET found == \A k \in DOMAIN cols : cols[k] \in Range(self.cols)
        hit   == {IndexOf(self.cols, cols[k]) - 1 : k \in DOMAIN cols}
        order == IF keep THEN SortedSeq(hit)
                 ELSE SortedSeq((0..(NCols(self) - 1)) \ hit)
        cols2 == [k \in DOMAIN order |-> self.cols[order[k] + 1]]
        ordered_data == ILocCols(self, [k \in DOMAIN order |-> order[k] + 1])
        newdf == FrameOf(ordered_data, cols2)
    IN IF ~found THEN Outcome(self, RetError)
       ELSE replacedata(self, newdf, reset_index, inplace)

\* filtercols(*cols, keep, reset_index, inplace); die is left at its default,
\* so a column that is not found raises.
filtercols(self, cols, keep, reset_index, inplace) ==
    LET found  == \A k \in DOMAIN cols : cols[k] \in Range(self.cols)
        order0 == [k \in DOMAIN cols |-> IndexOf(self.cols, cols[k]) - 1]
        order  == IF keep THEN order0
                  ELSE SortedSeq((0..(NCols(self) - 1)) \ Range(order0))
        cols2  == IF keep THEN cols
                  ELSE [k \in DOMAIN order |-> self.cols[order[k] + 1]]
        ordered_data == ILocCols(self, [k \in DOMAIN order |-> order[k] + 1])
        newdf  == FrameOf(ordered_data, cols2)
    IN IF ~found THEN Outcome(self, RetError)
       ELSE replacedata(self, newdf, reset_index, inplace)

------------------------------------------------------------------------------
(* dataframe.sortrows *)

Perms(n) == {p \in [1..n -> 1..n] : \A i, j \in 1..n : p[i] = p[j] => i = j}

\* np.argsort(vals, kind='mergesort'): ascending, ties in their original order.
ArgSortStable(vals) ==
    CHOOSE p \in Perms(Len(vals)) :
        \A i, j \in 1..Len(vals) :
            i < j => \/ vals[p[i]] < vals[p[j]]
                     \/ vals[p[i]] = vals[p[j]] /\ p[i] < p[j]

\* SortOrders that sorts in ascending order whatever ascending says.
SortOrdersAscending(vals, ascending) ==
    {p \in Perms(Len(vals)) :
        \A i \in 1..(Len(vals) - 1) : vals[p[i]] <= vals[p[i + 1]]}

\* The row orders sort_values(by, ascending) can produce: its default sort
\* kind is not stable, so rows with equal keys come in any order.
SortOrders(vals, ascending) ==
    {p \in Perms(Len(vals)) :
        \A i \in 1..(Len(vals) - 1) :
            IF ascending THEN vals[p[i]] <= vals[p[i + 1]]
            ELSE vals[p[i]] >= vals[p[i + 1]]}

\* The one row order among them that leaves rows with equal keys in their
\* original order, as sort_values does on the builds where its sort happens
\* to be stable.
TiesKeptOrders(vals, ascending) ==
    {p \in SortOrders(vals, ascending) :
        \A i, j \in 1..Len(vals) : (i < j /\ vals[p[i]] = vals[p[j]]) => p[i] < p[j]}

\* The column name sortrows sorts by.
SortBy(self, by) ==
    CASE by.t = "none" -> self.cols[1]
      [] by.t = "int"  -> self.cols[Pos(by.n, NCols(self))]
      [] by.t = "str"  -> by.s

\* sortrows, with p the row order sort_values produced.
sortrows(self, by, reverse, returninds, reset_index, inplace, p) ==
    LET ascending == ~reverse
        sortorder == ArgSortStable(Column(self, SortBy(self, by)))
        sorted    == ILocRows(self, p)
        self1     == IF inplace THEN sorted ELSE self
        self2     == IF reset_index THEN ResetIndex(self1) ELSE self1
    IN Outcome(self2,
               IF returninds THEN Ret("inds", [k \in DOMAIN sortorder |-> sortorder[k] - 1])
               ELSE IF inplace THEN RetSelf
               ELSE Ret("frame", sorted))

------------------------------------------------------------------------------
(* Inputs *)

RowsOf(n) == [1..n -> [1..Len(Cols) -> Vals]]

IntKeys == {IntKey(i) : i \in 0..(MaxRows - 1)}
StrKeys == {StrKey(Cols[c]) : c \in DOMAIN Cols} \cup {StrKey(NoCol)}
TupleKeys == {TupleKey(a, b) : a \in StrKeys, b \in IntKeys}
             \cup {TupleKey(a, b) : a \in IntKeys, b \in StrKeys}
             \cup {TupleKey(a, b) : a \in IntKeys, b \in {IntKey(c - 1) : c \in DOMAIN Cols}}
Keys == IntKeys \cup StrKeys \cup TupleKeys

\* The orders in which a dict can list the column names.
KeyOrders == {p \in Perms(Len(Cols)) : TRUE}

\* One row of data: a list in column order, or a dict in any key order.
RowArgs ==
    {ListRow(v) : v \in [1..Len(Cols) -> Vals]}
    \cup {DictRow(Pick(Cols, p), Pick(v, p)) : p \in KeyOrders, v \in [1..Len(Cols) -> Vals]}

\* The value a row argument supplies for each column, in column order.
RowValues(row) ==
    IF row.t = "dict" THEN [c \in DOMAIN Cols |-> row.vals[IndexOf(row.keys, Cols[c])]]
    ELSE row.vals

ColArgs == {NoneKey} \cup {StrKey(Cols[c]) : c \in DOMAIN Cols}
           \cup {IntKey(c - 1) : c \in DOMAIN Cols}

\* Requests for columns of a dataframe with the labels cs: every non-empty list
\* of different names among cs and one name that is not a column.
ColLists(cs) ==
    {l \in UNION {[1..k -> Range(cs) \cup {NoCol}] : k \in 1..Len(cs)} :
        \A i, j \in DOMAIN l : l[i] = l[j] => i = j}

\* Lists of row positions of an n-row dataframe: every ascending list, and
\* every pair of positions in any order, repeated or counted from the end.
IndArgs(n) ==
    {IndList(SortedSeq(S)) : S \in SUBSET (0..(n - 1))}
    \cup {IndList(<<a, b>>) : a \in (0 - n)..(n - 1), b \in (0 - n)..(n - 1)}

------------------------------------------------------------------------------
(* The state machine *)

\* df = sc.dataframe(cols=['x','y'], data=rows)
Init ==
    /\ \E n \in 0..MaxRows : \E rows \in RowsOf(n) : df = Frame(Cols, rows)
    /\ op = "idle"
    /\ args = <<>>
    /\ ret = RetNone
    /\ prev = df

\* df[key]
GetItem ==
    /\ op = "idle"
    /\ \E key \in Keys :
        /\ op' = "getitem"
        /\ args' = [key |-> key]
        /\ ret' = getitem(df, key)
        /\ prev' = df
        /\ df' = df

\* df[key] = value
SetItem ==
    /\ op = "idle"
    /\ \E key \in TupleKeys, value \in Vals :
        /\ op' = "setitem"
        /\ args' = [key |-> key, value |-> value]
        /\ ret' = IF setitem(df, key, value).ok THEN RetNone ELSE RetError
        /\ prev' = df
        /\ df' = setitem(df, key, value).df

\* df.appendrow(row, reset_index) and its alias df.append(row, reset_index)
AppendRow(Resets) ==
    /\ op = "idle"
    /\ \E row \in RowArgs, reset_index \in Resets, name \in {"appendrow", "append"} :
        LET out == IF name = "appendrow" THEN appendrow(df, row, reset_index, TRUE)
                   ELSE append(df, row, reset_index, TRUE)
        IN /\ NRows(df) < MaxRows
           /\ op' = name
           /\ args' = [row |-> row, reset_index |-> reset_index, inplace |-> TRUE]
           /\ ret' = out.ret
           /\ prev' = df
           /\ df' = out.self

\* df.concat(data, reset_index, inplace)
Concat(Resets) ==
    /\ op = "idle"
    /\ \E row \in RowArgs, reset_index \in Resets, inplace \in BOOLEAN :
        LET out == concat(df, row, <<>>, reset_index, inplace)
        IN /\ NRows(df) < MaxRows
           /\ op' = "concat"
           /\ args' = [row |-> row, reset_index |-> reset_index, inplace |-> inplace]
           /\ ret' = out.ret
           /\ prev' = df
           /\ df' = out.self

\* df.insertrow(index, value, reset_index)
InsertRow(Resets) ==
    /\ op = "idle"
    /\ \E index \in 0..NRows(df), row \in RowArgs, reset_index \in Resets :
        LET out == insertrow(df, index, row, reset_index, TRUE)
        IN /\ NRows(df) < MaxRows
           /\ op' = "insertrow"
           /\ args' = [index |-> index, row |-> row, reset_index |-> reset_index]
           /\ ret' = out.ret
           /\ prev' = df
           /\ df' = out.self

\* df.poprow(row)
PopRow ==
    /\ op = "idle"
    /\ \E row \in 0..(NRows(df) - 1) :
        LET out == poprow(df, row, TRUE)
        IN /\ op' = "poprow"
           /\ args' = [row |-> row]
           /\ ret' = out.ret
           /\ prev' = df
           /\ df' = out.self

\* df.poprows(inds), df.poprows() and df.poprows(value=v, col=c)
PopRows ==
    /\ op = "idle"
    /\ \E byvalue \in BOOLEAN, inplace \in BOOLEAN :
      \E inds \in IF byvalue THEN {OneInd(-1)}
                  ELSE IndArgs(NRows(df)) \cup {OneInd(-1)},
         value \in IF byvalue THEN {Some(v) : v \in Vals} ELSE {None},
         col \in IF byvalue THEN ColArgs ELSE {NoneKey} :
        LET out == poprows(df, inds, value, col, TRUE, inplace)
        IN /\ (~byvalue /\ inds.t = "int") => NRows(df) > 0
           /\ op' = "poprows"
           /\ args' = [inds |-> inds, value |-> value, col |-> col, inplace |-> inplace]
           /\ ret' = out.ret
           /\ prev' = df
           /\ df' = out.self

\* df.filterin(value=v, col=c) and df.filterout(value=v, col=c)
Filter ==
    /\ op = "idle"
    /\ \E name \in {"filterin", "filterout"}, v \in Vals, col \in ColArgs,
       inplace \in BOOLEAN :
        LET out == IF name = "filterin"
                   THEN filterin(df, NoInds, Some(v), col, TRUE, inplace)
                   ELSE filterout(df, NoInds, Some(v), col, TRUE, inplace)
        IN /\ op' = name
           /\ args' = [value |-> v, col |-> col, inplace |-> inplace]
           /\ ret' = out.ret
           /\ prev' = df
           /\ df' = out.self

\* df.sortrows(by, reverse, returninds, reset_index, inplace)
SortRows(Resets, tieskept) ==
    /\ op = "idle"
    /\ \E by \in ColArgs, reverse \in BOOLEAN, returninds \in BOOLEAN,
       reset_index \in Resets, inplace \in BOOLEAN :
      \E p \in (IF tieskept THEN TiesKeptOrders(Column(df, SortBy(df, by)), ~reverse)
                 ELSE SortOrders(Column(df, SortBy(df, by)), ~reverse)) :
        LET out == sortrows(df, by, reverse, returninds, reset_index, inplace, p)
        IN /\ op' = "sortrows"
           /\ args' = [by |-> by, reverse |-> reverse, returninds |-> returninds,
                       reset_index |-> reset_index, inplace |-> inplace]
           /\ ret' = out.ret
           /\ prev' = df
           /\ df' = out.self

\* df.filtercols(*cols, keep=keep), not in place
FilterCols ==
    /\ op = "idle"
    /\ \E cols \in ColLists(df.cols), keep \in BOOLEAN :
        LET out == filtercols(df, cols, keep, TRUE, FALSE)
        IN /\ op' = "filtercols"
           /\ args' = [cols |-> cols, keep |-> keep, inplace |-> FALSE]
           /\ ret' = out.ret
           /\ prev' = df
           /\ df' = out.self

\* The caller is done with the returned value; the dataframe awaits the next call.
Return ==
    /\ op # "idle"
    /\ op' = "idle"
    /\ args' = <<>>
    /\ ret' = RetNone
    /\ prev' = df
    /\ df' = df

\* Every method called with the default reset_index=True.
Next ==
    \/ GetItem
    \/ SetItem
    \/ AppendRow({TRUE})
    \/ Concat({TRUE})
    \/ InsertRow({TRUE})
    \/ PopRow
    \/ PopRows
    \/ Filter
    \/ SortRows({TRUE}, FALSE)
    \/ FilterCols
    \/ Return

Spec == Init /\ [][Next]_vars

\* As Next, with reset_index either True or False where the caller can pass it.
NextAnyReset ==
    \/ GetItem
    \/ SetItem
    \/ AppendRow(BOOLEAN)
    \/ Concat(BOOLEAN)
    \/ InsertRow(BOOLEAN)
    \/ PopRow
    \/ PopRows
    \/ Filter
    \/ SortRows(BOOLEAN, FALSE)
    \/ FilterCols
    \/ Return

SpecAnyReset == Init /\ [][NextAnyReset]_vars

\* As Next, on a build whose sort_values keeps rows with equal keys in order.
NextTiesKept ==
    \/ GetItem
    \/ SetItem
    \/ AppendRow({TRUE})
    \/ Concat({TRUE})
    \/ InsertRow({TRUE})
    \/ PopRow
    \/ PopRows
    \/ Filter
    \/ SortRows({TRUE}, TRUE)
    \/ FilterCols
    \/ Return

SpecTiesKept == Init /\ [][NextTiesKept]_vars

\* Column labels of the filtercols docstring's example dataframe.
WideCols == <<"a", "b", "c", "d">>

\* Largest number of rows of the four-column dataframes.
WideRows == MaxRows - 1

\* df = sc.dataframe(cols=['a','b','c','d'], data=rows)
InitCols ==
    /\ \E n \in 0..WideRows : \E rows \in [1..n -> [1..Len(WideCols) -> Vals]] :
           df = Frame(WideCols, rows)
    /\ op = "idle"
    /\ args = <<>>
    /\ ret = RetNone
    /\ prev = df

\* Column filtering of a four-column dataframe.
NextCols ==
    \/ FilterCols
    \/ Return

SpecCols == InitCols /\ [][NextCols]_vars

------------------------------------------------------------------------------
(* sc_plotting.get_rows_cols *)

\* Largest number of plots asked for.
MaxPlots == 37

\* Largest nrows or ncols a caller supplies.
MaxGrid == 3

\* The ratios asked for; each is a perfect square, so that
\* np.sqrt(n)*np.sqrt(ratio) is the square root of the integer n*ratio.
Ratios == {1, 4}

\* int(np.ceil(a/b)) for integers a >= 0 and b > 0.
CeilDiv(a, b) == (a + b - 1) \div b

\* int(np.ceil(np.sqrt(m))) for an integer m >= 0.
CeilSqrt(m) == CHOOSE r \in 0..m : r * r >= m /\ (r = 0 \/ (r - 1) * (r - 1) < m)

\* get_rows_cols(n, nrows, ncols, ratio, make=False): the pair (nrows, ncols),
\* or the ZeroDivisionError of dividing n by a count of zero.
get_rows_cols(n, nrows, ncols, ratio) ==
    IF nrows.some
    THEN IF nrows.v = 0 THEN RetError
         ELSE Ret("grid", <<nrows.v, CeilDiv(n, nrows.v)>>)
    ELSE IF ncols.some
    THEN IF ncols.v = 0 THEN RetError
         ELSE Ret("grid", <<CeilDiv(n, ncols.v), ncols.v>>)
    ELSE LET rows == CeilSqrt(n * ratio)
         IN IF rows = 0 THEN RetError
            ELSE Ret("grid", <<rows, CeilDiv(n, rows)>>)

\* The nrows and ncols arguments: None, or a count.
GridArgs == {None} \cup {Some(k) : k \in 0..MaxGrid}

\* No dataframe takes part in the calls of the plotting and legacy modules.
InitNoFrame ==
    /\ df = Frame(Cols, <<>>)
    /\ op = "idle"
    /\ args = <<>>
    /\ ret = RetNone
    /\ prev = df

\* nrows, ncols = sc.get_rows_cols(n, nrows, ncols, ratio)
GetRowsCols ==
    /\ op = "idle"
    /\ \E n \in 0..MaxPlots, nrows \in GridArgs, ncols \in GridArgs, ratio \in Ratios :
           /\ op' = "get_rows_cols"
           /\ args' = [n |-> n, nrows |-> nrows, ncols |-> ncols, ratio |-> ratio]
           /\ ret' = get_rows_cols(n, nrows, ncols, ratio)
    /\ UNCHANGED <<df, prev>>

NextPlots ==
    \/ GetRowsCols
    \/ Return

SpecPlots == InitNoFrame /\ [][NextPlots]_vars

------------------------------------------------------------------------------
(* sc_legacy._loadobj2to3.recursive_substitute *)

\* Largest number of nested dicts or objects in the unpickled object, the
\* outermost one included.
MaxObjs == 5

\* Largest recursionlimit a caller supplies.
MaxLimit == 3

\* The recursion limit used when None is passed.
DefaultRecursionLimit == 1000

\* The unpickled object as a tree of its dicts and objects: object 1 is the
\* outermost one (parent 0), object i > 1 is a value held by the earlier
\* object tree[i], and the values of one object are iterated in the order of
\* their numbers.  Values that are neither dicts nor objects are left out.
ObjTrees ==
    UNION {{t \in [1..n -> 0..(n - 1)] : t[1] = 0 /\ \A i \in 2..n : t[i] \in 1..(i - 1)}
           : n \in 1..MaxObjs}

\* The dict or object values of obj, in iteration order.
ContainerValues(tree, obj) ==
    SortedSeq({i \in DOMAIN tree : tree[i] = obj})

RECURSIVE recursive_substitute(_, _, _, _)
RECURSIVE SubstituteItems(_, _, _, _)

\* The loop over the values of one object: acc carries recursionlevel, the
\* objects descended into and the objects refused with a warning.
SubstituteItems(tree, items, acc, recursionlimit) ==
    IF items = <<>> THEN acc
    ELSE LET v == Head(items)
             acc1 ==
                 IF acc.level <= recursionlimit
                 THEN LET sub == recursive_substitute(tree, v, acc.level, recursionlimit)
                      IN [level   |-> sub.level,
                          visited |-> acc.visited \cup sub.visited,
                          warned  |-> acc.warned \cup sub.warned]
                 ELSE [acc EXCEPT !.warned = @ \cup {v}]
         IN SubstituteItems(tree, Tail(items), acc1, recursionlimit)

\* recursive_substitute(obj1, obj2, track, recursionlevel, recursionlimit) on
\* the object numbered obj; level is the recursionlevel it returns.
recursive_substitute(tree, obj, recursionlevel, recursionlimit) ==
    SubstituteItems(tree, ContainerValues(tree, obj),
                    [level |-> recursionlevel + 1, visited |-> {obj}, warned |-> {}],
                    recursionlimit)

\* The recursionlimit in force: 1000 when None is passed.
LimitOf(recursionlimit) ==
    IF recursionlimit.some THEN recursionlimit.v ELSE DefaultRecursionLimit

LimitArgs == {None} \cup {Some(k) : k \in 0..MaxLimit}

\* recursive_substitute(stringout, bytesout, recursionlevel=0, recursionlimit=recursionlimit)
LoadObj2to3 ==
    /\ op = "idle"
    /\ \E tree \in ObjTrees, recursionlimit \in LimitArgs :
           /\ op' = "loadobj2to3"
           /\ args' = [obj |-> tree, recursionlimit |-> recursionlimit]
           /\ ret' = Ret("substituted",
                         recursive_substitute(tree, 1, 0, LimitOf(recursionlimit)))
    /\ UNCHANGED <<df, prev>>

NextLegacy ==
    \/ LoadObj2to3
    \/ Return

SpecLegacy == InitNoFrame /\ [][NextLegacy]_vars

------------------------------------------------------------------------------
(* Properties *)

\* What the observer reads from the recorded call
ColPos(d, name) == IndexOf(d.cols, name)
RangeIndex(n)   == [i \in 1..n |-> i - 1]
IsElemKey(key, name, i) ==
    /\ key.t = "tuple"
    /\ \/ key = TupleKey(StrKey(name), IntKey(i))
       \/ key = TupleKey(IntKey(i), StrKey(name))

\* C1: with string column labels, df[name, i] and df[i, name] both return the
\* value stored at row position i of column name.
C1_ElementEitherOrder ==
    op = "getitem" =>
        \A name \in Range(prev.cols), i \in 0..(NRows(prev) - 1) :
            IsElemKey(args.key, name, i) =>
                /\ ret.kind = "scalar"
                /\ ret.val = prev.data[i + 1][ColPos(prev, name)]

\* A df[i, name] lookup (the swapped order) on a dataframe whose row labels
\* differ from the row positions.
C1_Witness ==
    /\ op = "getitem"
    /\ args.key.t = "tuple"
    /\ args.key = TupleKey(IntKey(1), StrKey("y"))
    /\ NRows(prev) = 2
    /\ prev.index # RangeIndex(2)
    /\ prev.data[1] # prev.data[2]
    /\ prev.data[2][1] # prev.data[2][2]
    /\ ret.kind = "scalar"

\* C2: with string column labels, df[name, i] = v and df[i, name] = v set
\* exactly the cell at row position i of column name: reading it back gives
\* v, and the rows' number, the labels and every other cell are unchanged.
C2_SetElementEitherOrder ==
    op = "setitem" =>
        \A name \in Range(prev.cols), i \in 0..(NRows(prev) - 1) :
            IsElemKey(args.key, name, i) =>
                /\ ret.kind = "none"
                /\ getitem(df, TupleKey(StrKey(name), IntKey(i))).kind = "scalar"
                /\ getitem(df, TupleKey(StrKey(name), IntKey(i))).val = args.value
                /\ df.cols = prev.cols
                /\ df.index = prev.index
                /\ NRows(df) = NRows(prev)
                /\ \A r \in 1..NRows(prev), c \in 1..NCols(prev) :
                       df.data[r][c] = IF r = i + 1 /\ c = ColPos(prev, name)
                                       THEN args.value
                                       ELSE prev.data[r][c]

\* df['y', 1] = v changing the cell, on a dataframe whose row labels differ
\* from the row positions.
C2_Witness ==
    /\ op = "setitem"
    /\ args.key.t = "tuple"
    /\ args.key = TupleKey(StrKey("y"), IntKey(1))
    /\ NRows(prev) = 2
    /\ prev.index # RangeIndex(2)
    /\ prev.data[2][2] # args.value
    /\ df.data[2][2] = args.value

\* C3: with string column labels, df[i] is the row at position i whatever the
\* row labels are, and df[name] is the column name.
C3_RowByPositionColumnByName ==
    op = "getitem" =>
        /\ \A i \in 0..(NRows(prev) - 1) :
               (args.key.t = "int" /\ args.key.n = i) =>
                   /\ ret.kind = "row"
                   /\ ret.val = prev.data[i + 1]
        /\ \A name \in Range(prev.cols) :
               (args.key.t = "str" /\ args.key.s = name) =>
                   /\ ret.kind = "column"
                   /\ ret.val = [r \in 1..NRows(prev) |-> prev.data[r][ColPos(prev, name)]]

\* df[1] where the row labelled 1 is not the row at position 1.
C3_Witness ==
    /\ op = "getitem"
    /\ args.key.t = "int"
    /\ args.key.n = 1
    /\ NRows(prev) = 2
    /\ prev.index[1] = 1
    /\ prev.data[1] # prev.data[2]
    /\ ret.kind = "row"
    /\ ret.val = prev.data[2]

\* C4: after df.appendrow(row) with default arguments (row a list in column
\* order or a dict keyed by the column names in any order), df has the former
\* rows in order followed by the new row with each value under its column, the
\* same column labels, the row index 0..nrows-1, and the call returns df.
C4_AppendRow ==
    (op = "appendrow" /\ args.reset_index /\ args.inplace) =>
        /\ df.data = Append(prev.data, RowValues(args.row))
        /\ df.cols = prev.cols
        /\ df.index = RangeIndex(NRows(prev) + 1)
        /\ ret.kind = "self"

\* A dict listing the columns in reverse order, with different values, is
\* appended to a dataframe whose row labels had a gap.
C4_Witness ==
    /\ op = "appendrow"
    /\ args.row.t = "dict"
    /\ args.row.keys = <<"y", "x">>
    /\ args.row.vals[1] # args.row.vals[2]
    /\ NRows(prev) = 2
    /\ prev.index # RangeIndex(2)
    /\ NRows(df) = 3

\* C5: appendrow, append and concat differ only in their default mode: the
\* dataframe df.concat(x) returns equals what df holds after df.appendrow(x) or
\* df.append(x), and df.concat(x) leaves df unchanged.
C5_AppendConcatEquivalent ==
    /\ (op \in {"appendrow", "append"}) =>
           /\ ret.kind = "self"
           /\ concat(prev, args.row, <<>>, args.reset_index, FALSE).ret.kind = "frame"
           /\ df = concat(prev, args.row, <<>>, args.reset_index, FALSE).ret.val
    /\ (op = "concat" /\ ~args.inplace) =>
           /\ df = prev
           /\ ret.kind = "frame"
           /\ ret.val = appendrow(prev, args.row, args.reset_index, TRUE).self
           /\ ret.val = append(prev, args.row, args.reset_index, TRUE).self
           /\ ret.val.data = Append(prev.data, RowValues(args.row))

\* df.concat(x) has returned a longer dataframe and df still holds its rows.
C5_Witness ==
    /\ op = "concat"
    /\ ~args.inplace
    /\ args.row.t = "dict"
    /\ NRows(prev) = 2
    /\ ret.kind = "frame"
    /\ NRows(ret.val) = 3
    /\ NRows(df) = 2

\* C6: after df.insertrow(index, row) with 0 <= index <= nrows and default
\* arguments, row is at position index, the rows formerly below index are
\* unchanged, those formerly at index and above follow one position later,
\* nrows has grown by one and the row index is 0..nrows-1.
C6_InsertRow ==
    (op = "insertrow" /\ args.reset_index) =>
        /\ NRows(df) = NRows(prev) + 1
        /\ df.data[args.index + 1] = RowValues(args.row)
        /\ \A r \in 1..NRows(prev) :
               IF r <= args.index THEN df.data[r] = prev.data[r]
               ELSE df.data[r + 1] = prev.data[r]
        /\ df.index = RangeIndex(NRows(prev) + 1)
        /\ df.cols = prev.cols
        /\ ret.kind = "self"

\* A row is inserted between two rows that both differ from it.
C6_Witness ==
    /\ op = "insertrow"
    /\ args.reset_index
    /\ args.index = 1
    /\ NRows(prev) = 2
    /\ NRows(df) = 3
    /\ df.data[2] # prev.data[1]
    /\ df.data[2] # prev.data[2]

\* The rows of d at the 0-based positions outside the set gone, in order.
RowsWithout(d, gone) ==
    Pick(d.data, SortedSeq({r \in 1..NRows(d) : (r - 1) \notin gone}))

\* The 0-based position of the column a col argument names.
ColArgPos(d, col) ==
    CASE col.t = "none" -> 1
      [] col.t = "str"  -> ColPos(d, col.s)
      [] col.t = "int"  -> col.n + 1

\* The 0-based positions of the rows of d whose value in column col is v.
Matching(d, v, col) == {r - 1 : r \in {q \in 1..NRows(d) : d.data[q][ColArgPos(d, col)] = v}}

\* C7: poprow drops by position rather than by label: on every dataframe
\* reachable through appendrow/concat/insertrow/sortrows/poprow calls with
\* reset_index True or False, poprow(i) removes exactly the row at position i,
\* keeps the others in order, and returns the removed row's values.
C7_PopRowByPosition ==
    op = "poprow" =>
        /\ NRows(df) = NRows(prev) - 1
        /\ df.data = RowsWithout(prev, {args.row})
        /\ ret.kind = "row"
        /\ ret.val = prev.data[args.row + 1]

\* C8: poprows(inds) removes the rows at the listed positions (the last row by
\* default) and poprows(value=v, col=c) removes every row whose value in
\* column c equals v; the remaining rows keep their values and order, and with
\* default arguments the change is in place with the row index reset.
C8_PopRows ==
    (op = "poprows" /\ args.inplace) =>
        LET gone == IF args.value.some THEN Matching(prev, args.value.v, args.col)
                    ELSE IF args.inds.t = "int" THEN {NRows(prev) - 1}
                    ELSE {IF i < 0 THEN i + NRows(prev) ELSE i : i \in Range(args.inds.l)}
        IN /\ df.data = RowsWithout(prev, gone)
           /\ df.index = RangeIndex(NRows(prev) - Cardinality(gone))
           /\ df.cols = prev.cols
           /\ ret.kind = "self"

\* poprows(value=v, col='y') on y = [v, w, v] removes rows 0 and 2.
C8_WitnessValue ==
    /\ op = "poprows"
    /\ args.inplace
    /\ args.value.some
    /\ args.col = StrKey("y")
    /\ NRows(prev) = 3
    /\ Matching(prev, args.value.v, args.col) = {0, 2}
    /\ NRows(df) = 1
    /\ df.data[1] = prev.data[2]

\* poprows([2, -3]) removes the first and the last of three rows.
C8_WitnessInds ==
    /\ op = "poprows"
    /\ args.inplace
    /\ ~args.value.some
    /\ args.inds.t = "list"
    /\ args.inds.l = <<2, -3>>
    /\ NRows(prev) = 3
    /\ prev.data[2] # prev.data[1]
    /\ prev.data[2] # prev.data[3]
    /\ NRows(df) = 1
    /\ df.data[1] = prev.data[2]

\* poprows() removes the last row.
C8_WitnessDefault ==
    /\ op = "poprows"
    /\ args.inplace
    /\ ~args.value.some
    /\ args.inds.t = "int"
    /\ NRows(prev) = 3
    /\ prev.data[3] # prev.data[2]
    /\ df.data = <<prev.data[1], prev.data[2]>>

\* C9: filterin(value=v, col=c) returns exactly the rows whose value in c
\* equals v and filterout(value=v, col=c) exactly the remaining rows, each in
\* the original order, so every row is in exactly one of the two results.
C9_FilterPartition ==
    (op \in {"filterin", "filterout"}) =>
        LET result == IF args.inplace THEN df ELSE ret.val
            match  == Matching(prev, args.value, args.col)
            all    == 0..(NRows(prev) - 1)
            rin    == filterin(prev, NoInds, Some(args.value), args.col, TRUE, FALSE).ret.val
            rout   == filterout(prev, NoInds, Some(args.value), args.col, TRUE, FALSE).ret.val
        IN /\ ret.kind = IF args.inplace THEN "self" ELSE "frame"
           /\ op = "filterin"  => result.data = RowsWithout(prev, all \ match)
           /\ op = "filterout" => result.data = RowsWithout(prev, match)
           /\ NRows(rin) + NRows(rout) = NRows(prev)
           /\ result.cols = prev.cols

\* filterin on a column holding both matching and other values, returning
\* rows 0 and 2 of three.
C9_Witness ==
    /\ op = "filterin"
    /\ ~args.inplace
    /\ NRows(prev) = 3
    /\ Matching(prev, args.value, args.col) = {0, 2}
    /\ ret.kind = "frame"
    /\ NRows(ret.val) = 2
    /\ ret.val.data[2] = prev.data[3]
    /\ prev.data[2] # prev.data[3]

\* C10: after df.filterout(value=v, col=c) with its default arguments, df
\* itself holds no row whose value in column c equals v.
C10_FilterOutInPlace ==
    (op = "filterout" /\ ~args.inplace) =>
        \A r \in 1..NRows(df) : df.data[r][ColArgPos(df, args.col)] # args.value

\* C11: when every requested column exists, filtercols(c1, ..., ck) returns
\* exactly the requested columns in the requested order with all rows and
\* values; with keep=False exactly the columns not requested, in their
\* original order; and with the default inplace=False df is unchanged.
C11_FilterCols ==
    (op = "filtercols" /\ \A k \in DOMAIN args.cols : args.cols[k] \in Range(prev.cols)) =>
        LET kept == IF args.keep THEN args.cols
                    ELSE Pick(prev.cols,
                              SortedSeq({c \in 1..NCols(prev) :
                                            prev.cols[c] \notin Range(args.cols)}))
        IN /\ ret.kind = "frame"
           /\ ret.val.cols = kept
           /\ NRows(ret.val) = NRows(prev)
           /\ \A r \in 1..NRows(prev), c \in 1..Len(kept) :
                  ret.val.data[r][c] = prev.data[r][ColPos(prev, kept[c])]
           /\ df = prev

\* filtercols('c', 'a') has returned the columns c and a, in that order, of a
\* row whose values in a and c differ.
C11_WitnessKeep ==
    /\ op = "filtercols"
    /\ args.keep
    /\ args.cols = <<"c", "a">>
    /\ NRows(prev) = 2
    /\ prev.data[1][1] # prev.data[1][3]
    /\ ret.kind = "frame"
    /\ ret.val.cols = <<"c", "a">>
    /\ ret.val.data[1] = <<prev.data[1][3], prev.data[1][1]>>

\* filtercols('c', 'a', keep=False) has returned the columns b and d.
C11_WitnessDrop ==
    /\ op = "filtercols"
    /\ ~args.keep
    /\ args.cols = <<"c", "a">>
    /\ NRows(prev) = 2
    /\ prev.data[1][2] # prev.data[1][4]
    /\ ret.kind = "frame"
    /\ ret.val.cols = <<"b", "d">>
    /\ ret.val.data[1] = <<prev.data[1][2], prev.data[1][4]>>

\* C12: after df.sortrows(by) with default arguments, the rows of df are a
\* permutation of its former rows (each row whole) in ascending order of the
\* column by (the first column when by is None, the column at that position
\* when by is an integer), descending when reverse=True; the row index is
\* 0..nrows-1 and the call returns df.
C12_SortRows ==
    (op = "sortrows" /\ ~args.returninds /\ args.reset_index /\ args.inplace) =>
        LET c == ColArgPos(prev, args.by)
        IN /\ \E p \in Perms(NRows(prev)) : df.data = Pick(prev.data, p)
           /\ \A r \in 1..(NRows(df) - 1) :
                  IF args.reverse THEN df.data[r][c] >= df.data[r + 1][c]
                  ELSE df.data[r][c] <= df.data[r + 1][c]
           /\ df.index = RangeIndex(NRows(prev))
           /\ df.cols = prev.cols
           /\ ret.kind = "self"

\* sortrows(1, reverse=True) has moved the last of three rows, the only one
\* with the larger value in the second column, to the front.
C12_Witness ==
    /\ op = "sortrows"
    /\ ~args.returninds /\ args.reset_index /\ args.inplace
    /\ args.reverse
    /\ args.by = IntKey(1)
    /\ NRows(prev) = 3
    /\ prev.data[1][2] = prev.data[2][2]
    /\ prev.data[3][2] > prev.data[1][2]
    /\ prev.data[3][1] < prev.data[1][1]
    /\ df.data[1] = prev.data[3]

\* C13: with returninds=True, for either value of reverse, row k of the sorted
\* dataframe is row p[k] of the dataframe before the call, p being the
\* returned list of indices.
C13_ReturnedIndsSort ==
    (op = "sortrows" /\ args.returninds /\ args.inplace) =>
        /\ ret.kind = "inds"
        /\ Len(ret.val) = NRows(prev)
        /\ \A k \in 1..NRows(df) : df.data[k] = prev.data[ret.val[k] + 1]

\* The recorded call asks for at least one plot, and no supplied count is zero.
PositiveCounts ==
    /\ args.n >= 1
    /\ args.nrows.some => args.nrows.v >= 1
    /\ args.ncols.some => args.ncols.v >= 1

\* get_rows_cols with neither nrows nor ncols and ratio 1, for n >= 1.
C14_StandardCase ==
    (/\ op = "get_rows_cols" /\ PositiveCounts
     /\ ~args.nrows.some /\ ~args.ncols.some /\ args.ratio = 1) =>
        /\ ret.kind = "grid"
        /\ LET nrows == ret.val[1]
               ncols == ret.val[2]
           IN /\ nrows * nrows >= args.n /\ (nrows - 1) * (nrows - 1) < args.n
              /\ ncols * nrows >= args.n /\ (ncols - 1) * nrows < args.n
              /\ nrows >= ncols
              /\ (args.n = 36 => ret.val = <<6, 6>>)
              /\ (args.n = 37 => ret.val = <<7, 6>>)

\* get_rows_cols with nrows supplied, for n >= 1.
C14_RowsSupplied ==
    (op = "get_rows_cols" /\ PositiveCounts /\ args.nrows.some) =>
        /\ ret.kind = "grid"
        /\ ret.val[1] = args.nrows.v
        /\ ret.val[2] * args.nrows.v >= args.n
        /\ (ret.val[2] - 1) * args.nrows.v < args.n

\* get_rows_cols with ncols supplied, for n >= 1.
C14_ColsSupplied ==
    (op = "get_rows_cols" /\ PositiveCounts /\ args.ncols.some) =>
        /\ ret.kind = "grid"
        /\ ret.val[2] = args.ncols.v
        /\ ret.val[1] * args.ncols.v >= args.n
        /\ (ret.val[1] - 1) * args.ncols.v < args.n

\* C14: for n >= 1, get_rows_cols(n) with ratio 1 returns nrows = ceil(sqrt(n))
\* and ncols = ceil(n/nrows), with nrows*ncols >= n and nrows >= ncols (36
\* gives (6,6), 37 gives (7,6)); a supplied nrows is returned unchanged with
\* ncols = ceil(n/nrows), and a supplied ncols is returned unchanged with
\* nrows = ceil(n/ncols).
C14_GetRowsCols ==
    /\ C14_StandardCase
    /\ C14_RowsSupplied
    /\ C14_ColsSupplied

\* Nesting depth of an object: 0 for the outermost one.
RECURSIVE Depth(_, _)
Depth(tree, obj) == IF tree[obj] = 0 THEN 0 ELSE 1 + Depth(tree, tree[obj])

\* C15: recursive_substitute descends into every nested dict or object whose
\* nesting depth is at most recursionlimit (1000 by default), however many
\* siblings it has, and refuses with a warning only objects nested deeper
\* than recursionlimit.
C15_RecursionLimitIsDepth ==
    op = "loadobj2to3" =>
        LET tree  == args.obj
            limit == LimitOf(args.recursionlimit)
        IN /\ \A obj \in DOMAIN tree :
                  Depth(tree, obj) <= limit => obj \in ret.val.visited
           /\ \A obj \in ret.val.warned : Depth(tree, obj) > limit

====
